---- MODULE Spec2Model ----
(***************************************************************************)
(* Model of installer/build_server.py: the packaging-and-publish pipeline  *)
(* of main(), the error ledger (errors_detected / error), the retrying     *)
(* upload(), truncate() and the debug-library filter of the Windows build. *)
(*                                                                         *)
(* Text is modelled as a sequence of runs [ch, n]: n times the character   *)
(* ch.  An error message is Msg(kind, n): n characters, every one tagged   *)
(* with the message template it comes from, n being the length of the      *)
(* formatted message (length of the template's fixed text plus the length  *)
(* of what is interpolated).  External tools, the release server and the   *)
(* chat service are nondeterministic: each step draws their outcome from a *)
(* small set.                                                              *)
(***************************************************************************)
EXTENDS Integers, Sequences, FiniteSets, TLC

VARIABLES
    pc,               \* position of main()
    platform,         \* platform.system()
    argc,             \* len(sys.argv)
    git_branch_name,  \* sequence of name parts, see Branches
    github_release,   \* "unset", "None" or "release" (what get_release returned)
    assets,           \* the assets of the "daily" release, in list order
    next_id,          \* id the release server gives to the next created asset
    files,            \* which of the paths of Paths exist on disk
    errors_detected,  \* the error ledger
    needs_upload,
    download_url,     \* id of the asset upload() returned for the artifact, 0 = unset
    up_file,          \* upload(): file_path of the running call, "none" outside
    attempt,          \* upload(): loop variable of `for attempt in range(3)`
    uploads,          \* calls of upload(), in order: the file_path of each
    tries,            \* upload(): attempts made so far by the latest call
    last_failure,     \* upload(): what the latest failed attempt of the call raised
    deletes,          \* calls of asset.delete(): the id of each deleted asset
    raised,           \* the exception that left the try block, if any
    has_daily,        \* whether the repository has a release tagged "daily"
    original_assets,  \* github_release.original_assets: the list get_release fetched
    tool_produced,    \* whether the installer-building tool wrote its output file
    lines_read,       \* lines read so far from the running external tool
    tool_success,     \* the *_success local of the running packaging stage
    tool_output,      \* the *_output local of the running stage: last line kept
    notes,            \* calls of zulip_upload_log, in order
    exit_code,        \* process exit status, meaningful when pc = "done"
    tr,               \* truncate() harness: [msg, maxlen, out, called]
    exe_dir,          \* the frozen output directory: [listing, tree, cleaned]
    url,              \* upload(): its local url, the value the latest call returns, 0 = None
    seen              \* the lines the running external tool has printed so far, each
                      \* the set of marker texts it contains; empty between tools

vars == <<pc, platform, argc, git_branch_name, github_release, assets, next_id,
          files, errors_detected, needs_upload, download_url, up_file, attempt,
          uploads, tries, last_failure, deletes, raised, has_daily, original_assets,
          tool_produced, lines_read, tool_success, tool_output, notes, exit_code, tr, exe_dir, url, seen>>

main_vars == <<pc, platform, argc, git_branch_name, github_release, assets,
               next_id, files, errors_detected, needs_upload, download_url,
               up_file, attempt, uploads, tries, last_failure, deletes, raised, has_daily,
               original_assets, tool_produced, lines_read, tool_success, tool_output, notes, exit_code,
               exe_dir, url, seen>>

----------------------------------------------------------------------------
(* Bounds of the model *)

MaxAssets == 2        \* most assets on the release before the run
MaxLines == 2         \* most output lines drawn for one external tool
MaxTruncLen == 3      \* truncate() harness: most runs of a message
MaxTruncMax == 5      \* truncate() harness: largest maxlen

(* Lengths drawn for a formatted output line and for str(ex) + traceback *)
LineLens == {48, 250}
TraceLens == {75, 300}

(* Argument counts drawn: one on each side of every threshold main() tests *)
Argcs == {1, 2, 6, 7, 8}

----------------------------------------------------------------------------
(* Program constants *)

DefaultMaxLen == 256      \* def truncate(message, maxlen=256)
HeadlineMaxLen == 100     \* truncate(errors_detected[0], 100)
UploadTries == 3          \* for attempt in range(3)
LastRetry == 2            \* if attempt < 2
ArgcToken == 2            \* len(sys.argv) >= 2: zulip_token
ArgcGithub == 6           \* len(sys.argv) >= 6: repo
ArgcBits == 7             \* len(sys.argv) >= 7: windows_32bit
ArgcBranch == 8           \* len(sys.argv) >= 8: git_branch_name

(* Length of the fixed text of each error message template *)
AppImageErrLen == 69
MacLineErrLen == 21
MacReadyErrLen == 57
VerpatchErrLen == 52
InnoErrLen == 57
KeySignErrLen == 52
TorrentErrLen == 35
UnhandledErrLen == 24

----------------------------------------------------------------------------
(* Text *)

Run(ch, n) == [ch |-> ch, n |-> n]

Msg(kind, n) == <<Run(kind, n)>>

(* len(text) *)
RECURSIVE TextLen(_)
TextLen(text) ==
    IF text = <<>> THEN 0 ELSE Head(text).n + TextLen(Tail(text))

(* text[i - 1] in Python's numbering: the i-th character, i in 1..len(text) *)
RECURSIVE CharAt(_, _)
CharAt(text, i) ==
    IF i <= Head(text).n THEN Head(text).ch ELSE CharAt(Tail(text), i - Head(text).n)

(* text[:k] *)
RECURSIVE Take(_, _)
Take(text, k) ==
    IF k <= 0 \/ text = <<>> THEN <<>>
    ELSE IF Head(text).n <= k
         THEN <<Head(text)>> \o Take(Tail(text), k - Head(text).n)
         ELSE <<Run(Head(text).ch, k)>>

Ellipsis == <<Run(".", 3)>>

truncate_offbyone(message, maxlen) ==
    IF TextLen(message) <= maxlen
    THEN message
    ELSE Take(message, maxlen) \o Ellipsis

(* Lines 105-109 *)
truncate(message, maxlen) ==
    IF TextLen(message) < maxlen
    THEN message
    ELSE Take(message, maxlen) \o Ellipsis

error_prepend(ledger, line) == <<line>> \o ledger

(* error(line): errors_detected.append(line) *)
error(ledger, line) == Append(ledger, line)

----------------------------------------------------------------------------
(* Paths, asset names, branches *)

AppPath == "app_build_path"
TorrentPath == "torrent_path"
InnoOutputExe == "inno_output_exe"
Paths == {AppPath, TorrentPath, InnoOutputExe}

(* os.path.basename(file_path) *)
basename(path) == IF path = AppPath THEN "app_name" ELSE "app_name.torrent"

AssetNames == {"app_name", "app_name.torrent", "other"}

(* Branch names as sequences of parts, so that a prefix test differs from   *)
(* an equality or a containment test.                                      *)
Branches == { <<"develop">>, <<"develop", "2">>, <<"release", "-2.6">>,
              <<"pre-", "release">>, <<"feature">> }

NotDailyBranch_contains(b) ==
    b # <<"develop">> /\ ~(\E i \in 1..Len(b) : b[i] = "release")

(* git_branch_name != "develop" and not git_branch_name.startswith("release") *)
NotDailyBranch(b) == b # <<"develop">> /\ ~(Len(b) >= 1 /\ b[1] = "release")

Platforms == {"Linux", "Darwin", "Windows"}

NoException == [kind |-> "none", path |-> "none", cause |-> "none", len |-> 0]

NoOutput == [kind |-> "none", len |-> 0]

(* Lists of at most n assets with names of AssetNames; the server gives     *)
(* each asset its own id.                                                  *)
AssetLists(n) ==
    UNION { { [i \in 1..k |-> [name |-> f[i], id |-> i]] : f \in [1..k -> AssetNames] }
            : k \in 0..n }

----------------------------------------------------------------------------
(* The frozen output directory of the Windows build: lines 490-498 *)

(* File names, character by character *)
FooDll == <<"f", "o", "o", ".", "d", "l", "l">>
FoodDll == <<"f", "o", "o", "d", ".", "d", "l", "l">>
DDll == <<"d", ".", "d", "l", "l">>
FoodDllBak == <<"f", "o", "o", "d", ".", "d", "l", "l", ".", "b", "a", "k">>
FoodDl == <<"f", "o", "o", "d", ".", "d", "l">>

DllNames == {FooDll, FoodDll, DDll, FoodDllBak, FoodDl}

(* The suffix tested at line 496 *)
DebugSuffix == <<"d", ".", "d", "l", "l">>

(* for sub_folder in ['', 'platforms', 'imageformats'] *)
SubFolders == {"", "platforms", "imageformats"}

endswith_contains(name, suffix) ==
    \E i \in 1..(Len(name) - Len(suffix) + 1) :
        SubSeq(name, i, i + Len(suffix) - 1) = suffix

(* str.endswith *)
endswith(name, suffix) ==
    /\ Len(name) >= Len(suffix)
    /\ SubSeq(name, Len(name) - Len(suffix) + 1, Len(name)) = suffix

(* Lines 491-498: in each of the three folders, os.remove every listed     *)
(* name that ends with "d.dll"                                             *)
DeleteDebugLibs(tree) ==
    [sub_folder \in SubFolders |->
        {debug_qt_lib \in tree[sub_folder] : ~endswith(debug_qt_lib, DebugSuffix)}]

(* The directory as the freezing tool left it in a run of main() *)
FrozenTree ==
    [sub_folder \in SubFolders |-> IF sub_folder = "" THEN {FooDll, FoodDll} ELSE {}]

ExeDirInit(tree) == [listing |-> tree, tree |-> tree, cleaned |-> FALSE]

----------------------------------------------------------------------------
(* State after module import: lines 52-67 *)

MainInit ==
    /\ pc = "start"
    /\ platform \in Platforms
    /\ argc \in Argcs
    /\ git_branch_name \in (IF argc >= ArgcBranch THEN Branches ELSE {<<"develop">>})
    /\ github_release = "unset"
    /\ has_daily \in BOOLEAN
    /\ assets \in (IF has_daily THEN AssetLists(MaxAssets) ELSE {<<>>})
    /\ next_id = Len(assets) + 1
    /\ files \in SUBSET {TorrentPath}
    /\ errors_detected = <<>>
    /\ needs_upload = FALSE
    /\ download_url = 0
    /\ up_file = "none"
    /\ attempt = 0
    /\ uploads = <<>>
    /\ tries = 0
    /\ last_failure = "none"
    /\ deletes = <<>>
    /\ raised = NoException
    /\ original_assets = <<>>
    /\ tool_produced = "not run"
    /\ lines_read = 0
    /\ tool_success = FALSE
    /\ tool_output = NoOutput
    /\ notes = <<>>
    /\ exit_code = 0
    /\ url = 0
    /\ seen = {}

TruncIdle == [msg |-> <<>>, maxlen |-> 0, out |-> <<>>, called |-> FALSE]

Init == MainInit /\ tr = TruncIdle /\ exe_dir = ExeDirInit(FrozenTree)

----------------------------------------------------------------------------
(* Exceptions: an exception raised inside the try block of main() leaves   *)
(* it for the handler of line 639.                                         *)

Raise(kind, path, cause) ==
    \E n \in TraceLens :
        /\ raised' = [kind |-> kind, path |-> path, cause |-> cause, len |-> n]
        /\ pc' = "except"

(* Start of one external tool run: run_command(...) and the stage's locals *)
StartTool(success) ==
    /\ lines_read' = 0
    /\ tool_success' = success
    /\ tool_output' = NoOutput
    /\ seen' = {}

PackagePc == [p \in Platforms |->
                 IF p = "Linux" THEN "appimage"
                 ELSE IF p = "Darwin" THEN "dmg" ELSE "verpatch"]

(* Lines 213-378 (Linux), 213-398 (Darwin), 213-518 (Windows): arguments,   *)
(* release lookup, names, and the file operations before the first tool.    *)
(* repo is bound only when len(sys.argv) >= 6 and windows_32bit only when   *)
(* len(sys.argv) >= 7; reading an unbound local raises.  Any of the         *)
(* external calls and file operations may raise as well, before or after   *)
(* the debug libraries of the Windows build were removed.                   *)
Cleaned(dir) == [dir EXCEPT !.tree = DeleteDebugLibs(dir.tree), !.cleaned = TRUE]

Setup ==
    /\ pc = "start"
    /\ \E ok \in BOOLEAN, reached \in BOOLEAN :
        IF argc < ArgcGithub
        THEN /\ Raise("UnboundLocalError", "none", "repo")
             /\ UNCHANGED <<github_release, original_assets, needs_upload,
                            lines_read, tool_success, tool_output, seen, exe_dir>>
        ELSE /\ github_release' = IF has_daily THEN "release" ELSE "None"
             /\ original_assets' = IF has_daily THEN assets ELSE <<>>
             /\ needs_upload' = ~NotDailyBranch(git_branch_name)
             /\ IF platform = "Windows" /\ argc < ArgcBits
                THEN /\ Raise("UnboundLocalError", "none", "windows_32bit")
                     /\ UNCHANGED <<lines_read, tool_success, tool_output, seen, exe_dir>>
                ELSE IF ~ok
                THEN /\ Raise("Exception", "none", "setup")
                     /\ exe_dir' = IF platform = "Windows" /\ reached
                                   THEN Cleaned(exe_dir) ELSE exe_dir
                     /\ UNCHANGED <<lines_read, tool_success, tool_output, seen>>
                ELSE /\ pc' = PackagePc[platform]
                     /\ exe_dir' = IF platform = "Windows"
                                   THEN Cleaned(exe_dir) ELSE exe_dir
                     /\ StartTool(platform = "Windows")
                     /\ UNCHANGED raised
    /\ UNCHANGED <<platform, argc, git_branch_name, assets, next_id, files,
                   errors_detected, download_url, up_file, attempt, uploads,
                   tries, last_failure, deletes, has_daily, tool_produced, notes, exit_code, tr, url>>

----------------------------------------------------------------------------
(* Linux: lines 377-394 *)

(* for line in run_command(AppImageAssistant ...): output(line) *)
AppImageLine ==
    /\ pc = "appimage"
    /\ lines_read < MaxLines
    /\ \E kind \in {"plain", "error"} :
        /\ lines_read' = lines_read + 1
        /\ tool_output' = [kind |-> kind, len |-> 0]
        /\ seen' = seen \union {IF kind = "error" THEN {"error"} ELSE {}}
    /\ UNCHANGED <<pc, platform, argc, git_branch_name, github_release, assets,
                   next_id, files, errors_detected, needs_upload, download_url,
                   up_file, attempt, uploads, tries, last_failure, deletes, raised,
                   has_daily, original_assets, tool_produced, tool_success, notes, exit_code, tr, exe_dir, url>>

(* The stage's verdict: lines 385-394, with os.remove raising when the      *)
(* file is not there.                                                       *)
AppImageVerdict(produced) ==
    LET files1 == IF produced THEN files \union {AppPath} ELSE files
        app_image_success == AppPath \in files1
    IN  /\ tool_success' = app_image_success
        /\ IF ~app_image_success \/ errors_detected # <<>>
           THEN /\ errors_detected' =
                       error(errors_detected, Msg("AppImageKit Error", AppImageErrLen))
                /\ needs_upload' = FALSE
                /\ IF AppPath \in files1
                   THEN /\ files' = files1 \ {AppPath}
                        /\ pc' = "publish"
                        /\ UNCHANGED raised
                   ELSE /\ files' = files1
                        /\ Raise("FileNotFoundError", AppPath, "os.remove")
           ELSE /\ files' = files1
                /\ pc' = "publish"
                /\ UNCHANGED <<errors_detected, needs_upload, raised>>

AppImageEnd ==
    /\ pc = "appimage"
    /\ \E produced \in BOOLEAN :
          /\ AppImageVerdict(produced)
          /\ tool_produced' = IF produced THEN "yes" ELSE "no"
    /\ seen' = {}
    /\ UNCHANGED <<platform, argc, git_branch_name, github_release, assets,
                   next_id, download_url, up_file, attempt, uploads, tries, last_failure,
                   deletes, has_daily, original_assets, lines_read, tool_output, notes,
                   exit_code, tr, exe_dir, url>>

----------------------------------------------------------------------------
(* macOS: lines 396-427 *)

(* What a line of the script's output contains.  "No errors" contains      *)
(* "error".                                                                *)
MacTokens == {"error", "No errors", "rejected", "Your image is ready"}
MacLineKinds == { t \in SUBSET MacTokens : "No errors" \in t => "error" \in t }

IsMacError_plain(toks) == "error" \in toks \/ "rejected" \in toks

(* Lines 403-407 *)
IsMacError(toks) ==
    ("error" \in toks /\ "No errors" \notin toks) \/ "rejected" \in toks

(* One iteration of the loop of lines 401-410 *)
DmgLine ==
    /\ pc = "dmg"
    /\ lines_read < MaxLines
    /\ \E toks \in MacLineKinds, n \in LineLens :
        /\ lines_read' = lines_read + 1
        /\ errors_detected' =
              IF IsMacError(toks)
              THEN error(errors_detected, Msg("Build-Mac-DMG Error: line", MacLineErrLen + n))
              ELSE errors_detected
        /\ tool_success' = (tool_success \/ "Your image is ready" \in toks)
        /\ seen' = seen \union {toks}
    /\ UNCHANGED <<pc, platform, argc, git_branch_name, github_release, assets,
                   next_id, files, needs_upload, download_url, up_file, attempt,
                   uploads, tries, last_failure, deletes, raised, has_daily, original_assets, tool_produced, tool_output,
                   notes, exit_code, tr, exe_dir, url>>

(* Lines 412-427: the produced .dmg is renamed to app_build_path, then the  *)
(* verdict.                                                                *)
DmgVerdict(produced) ==
    LET files1 == IF produced THEN files \union {AppPath} ELSE files
    IN  IF ~tool_success \/ errors_detected # <<>>
        THEN /\ errors_detected' =
                    error(errors_detected, Msg("Build-Mac-DMG Error: ready", MacReadyErrLen))
             /\ needs_upload' = FALSE
             /\ IF AppPath \in files1
                THEN /\ files' = files1 \ {AppPath}
                     /\ pc' = "publish"
                     /\ UNCHANGED raised
                ELSE /\ files' = files1
                     /\ Raise("FileNotFoundError", AppPath, "os.remove")
        ELSE /\ files' = files1
             /\ pc' = "publish"
             /\ UNCHANGED <<errors_detected, needs_upload, raised>>

DmgEnd ==
    /\ pc = "dmg"
    /\ \E produced \in BOOLEAN :
          /\ DmgVerdict(produced)
          /\ tool_produced' = IF produced THEN "yes" ELSE "no"
    /\ seen' = {}
    /\ UNCHANGED <<platform, argc, git_branch_name, github_release, assets,
                   next_id, download_url, up_file, attempt, uploads, tries, last_failure,
                   deletes, has_daily, original_assets, lines_read, tool_success, tool_output,
                   notes, exit_code, tr, exe_dir, url>>

----------------------------------------------------------------------------
(* Windows: lines 519-590 *)

(* One iteration of a loop `for line in run_command(...)` whose body is     *)
(* `if line: x_success = False; x_output = line` (lines 520-524, 547-551)   *)
AnyOutputLine ==
    /\ lines_read < MaxLines
    /\ \E n \in LineLens :
        /\ lines_read' = lines_read + 1
        /\ tool_success' = FALSE
        /\ tool_output' = [kind |-> "output", len |-> n]
        /\ seen' = seen \union {{"output"}}

VerpatchLine ==
    /\ pc = "verpatch"
    /\ AnyOutputLine
    /\ UNCHANGED <<pc, platform, argc, git_branch_name, github_release, assets,
                   next_id, files, errors_detected, needs_upload, download_url,
                   up_file, attempt, uploads, tries, last_failure, deletes, raised,
                   has_daily, original_assets, tool_produced, notes, exit_code, tr, exe_dir, url>>

(* Lines 526-545: verpatch failed (not fatal); then the installer compiler  *)
(* is started.                                                              *)
VerpatchVerdict ==
    errors_detected' =
        IF ~tool_success
        THEN error(errors_detected, Msg("Verpatch Error", VerpatchErrLen + tool_output.len))
        ELSE errors_detected

VerpatchEnd ==
    /\ pc = "verpatch"
    /\ VerpatchVerdict
    /\ pc' = "inno"
    /\ StartTool(TRUE)
    /\ UNCHANGED <<platform, argc, git_branch_name, github_release, assets,
                   next_id, files, needs_upload, download_url, up_file, attempt,
                   uploads, tries, last_failure, deletes, raised, has_daily, original_assets, tool_produced, notes,
                   exit_code, tr, exe_dir, url>>

InnoLine ==
    /\ pc = "inno"
    /\ AnyOutputLine
    /\ UNCHANGED <<pc, platform, argc, git_branch_name, github_release, assets,
                   next_id, files, errors_detected, needs_upload, download_url,
                   up_file, attempt, uploads, tries, last_failure, deletes, raised,
                   has_daily, original_assets, tool_produced, notes, exit_code, tr, exe_dir, url>>

InnoVerdict_nonfatal(produced) ==
    LET files1 == IF produced THEN files \union {InnoOutputExe} ELSE files
    IN  IF ~tool_success \/ InnoOutputExe \notin files1
        THEN /\ errors_detected' =
                    error(errors_detected, Msg("Inno Compiler Error", InnoErrLen + tool_output.len))
             /\ UNCHANGED needs_upload
             /\ files' = files1
        ELSE /\ files' = (files1 \ {InnoOutputExe}) \union {AppPath}
             /\ UNCHANGED <<errors_detected, needs_upload>>

(* Lines 553-563 *)
InnoVerdict(produced) ==
    LET files1 == IF produced THEN files \union {InnoOutputExe} ELSE files
    IN  IF ~tool_success \/ InnoOutputExe \notin files1
        THEN /\ errors_detected' =
                    error(errors_detected, Msg("Inno Compiler Error", InnoErrLen + tool_output.len))
             /\ needs_upload' = FALSE
             /\ files' = files1
        ELSE /\ files' = (files1 \ {InnoOutputExe}) \union {AppPath}
             /\ UNCHANGED <<errors_detected, needs_upload>>

InnoEnd ==
    /\ pc = "inno"
    /\ \E produced \in BOOLEAN :
          /\ InnoVerdict(produced)
          /\ tool_produced' = IF produced THEN "yes" ELSE "no"
    /\ pc' = "keysign"
    /\ StartTool(TRUE)
    /\ UNCHANGED <<platform, argc, git_branch_name, github_release, assets,
                   next_id, download_url, up_file, attempt, uploads, tries, last_failure,
                   deletes, raised, has_daily, original_assets, notes, exit_code, tr, exe_dir, url>>

(* if line and "will expire" not in line.decode('UTF-8'): lines 577-581 *)
KeySignLine ==
    /\ pc = "keysign"
    /\ lines_read < MaxLines
    /\ \E kind \in {"output", "will expire"}, n \in LineLens :
        /\ lines_read' = lines_read + 1
        /\ seen' = seen \union {{kind}}
        /\ IF kind # "will expire"
           THEN /\ tool_success' = FALSE
                /\ tool_output' = [kind |-> kind, len |-> n]
           ELSE UNCHANGED <<tool_success, tool_output>>
    /\ UNCHANGED <<pc, platform, argc, git_branch_name, github_release, assets,
                   next_id, files, errors_detected, needs_upload, download_url,
                   up_file, attempt, uploads, tries, last_failure, deletes, raised,
                   has_daily, original_assets, tool_produced, notes, exit_code, tr, exe_dir, url>>

KeySignVerdict_keep ==
    IF ~tool_success
    THEN /\ errors_detected' =
                error(errors_detected, Msg("Key Sign Error", KeySignErrLen + tool_output.len))
         /\ needs_upload' = FALSE
         /\ pc' = "publish"
         /\ UNCHANGED <<files, raised>>
    ELSE /\ pc' = "publish"
         /\ UNCHANGED <<errors_detected, needs_upload, files, raised>>

(* Lines 583-590 *)
KeySignVerdict ==
    IF ~tool_success
    THEN /\ errors_detected' =
                error(errors_detected, Msg("Key Sign Error", KeySignErrLen + tool_output.len))
         /\ needs_upload' = FALSE
         /\ IF AppPath \in files
            THEN /\ files' = files \ {AppPath}
                 /\ pc' = "publish"
                 /\ UNCHANGED raised
            ELSE /\ UNCHANGED files
                 /\ Raise("FileNotFoundError", AppPath, "os.remove")
    ELSE /\ pc' = "publish"
         /\ UNCHANGED <<errors_detected, needs_upload, files, raised>>

KeySignEnd ==
    /\ pc = "keysign"
    /\ KeySignVerdict
    /\ seen' = {}
    /\ UNCHANGED <<platform, argc, git_branch_name, github_release, assets,
                   next_id, download_url, up_file, attempt, uploads, tries, last_failure,
                   deletes, has_daily, original_assets, tool_produced, lines_read, tool_success, tool_output,
                   notes, exit_code, tr, exe_dir, url>>

----------------------------------------------------------------------------
(* upload(file_path, github_release): lines 166-207 *)

(* Causes of a failed github_release.upload_asset call *)
Causes == {"HTTPError", "ConnectionError"}

(* Index of the first asset of the list with that name, 0 if none: the      *)
(* loop of lines 177-184 stops at the first match.                          *)
FirstMatch(asset_list, file_name) ==
    IF \E i \in 1..Len(asset_list) : asset_list[i].name = file_name
    THEN CHOOSE i \in 1..Len(asset_list) :
            /\ asset_list[i].name = file_name
            /\ \A j \in 1..(i - 1) : asset_list[j].name # file_name
    ELSE 0

WithoutId_keep(asset_list, id) == asset_list

(* The server's list after asset.delete() of the asset with that id *)
WithoutId(asset_list, id) == SelectSeq(asset_list, LAMBDA a : a.id # id)

(* The call: lines 166-169 *)
CallUpload(path) ==
    /\ uploads' = Append(uploads, path)
    /\ up_file' = path
    /\ attempt' = 0
    /\ tries' = 0
    /\ last_failure' = "none"
    /\ url' = 0
    /\ pc' = "upload_delete"

(* Lines 171-184: delete the matching asset, if any.  asset.delete() is a   *)
(* request to the server and may raise.                                     *)
DeleteMatching(ok) ==
    LET i == FirstMatch(original_assets, basename(up_file))
    IN  IF i = 0
        THEN /\ pc' = "upload_attempt"
             /\ UNCHANGED <<assets, deletes, raised>>
        ELSE /\ deletes' = Append(deletes, original_assets[i].id)
             /\ IF ok
                THEN /\ assets' = WithoutId(assets, original_assets[i].id)
                     /\ pc' = "upload_attempt"
                     /\ UNCHANGED raised
                ELSE /\ UNCHANGED assets
                     /\ Raise("Exception", "none", "asset.delete")

UploadDelete ==
    /\ pc = "upload_delete"
    /\ \E ok \in BOOLEAN : DeleteMatching(ok)
    /\ UNCHANGED <<platform, argc, git_branch_name, github_release, next_id,
                   files, errors_detected, needs_upload, download_url, up_file,
                   attempt, uploads, tries, last_failure, has_daily, original_assets, tool_produced, lines_read,
                   tool_success, tool_output, notes, exit_code, tr, exe_dir, url, seen>>

AfterUpload_skip(path) == "notify"

(* Where main() continues after upload() returned: line 596 or line 631 *)
AfterUpload(path) == IF path = AppPath THEN "torrent_prepare" ELSE "notify"

AttemptFailed_noretry(cause) ==
    /\ Raise("Upload failed", up_file, cause)
    /\ up_file' = "none"
    /\ UNCHANGED attempt

(* Lines 199-205: what the except clause does with a failed attempt *)
AttemptFailed(cause) ==
    IF attempt < LastRetry
    THEN /\ attempt' = attempt + 1
         /\ pc' = IF attempt + 1 < UploadTries THEN "upload_attempt" ELSE AfterUpload(up_file)
         /\ up_file' = IF attempt + 1 < UploadTries THEN up_file ELSE "none"
         /\ UNCHANGED raised
    ELSE /\ Raise("Upload failed", up_file, cause)
         /\ up_file' = "none"
         /\ UNCHANGED attempt

TryUpload_nobreak(result) ==
    /\ tries' = tries + 1
    /\ last_failure' = IF result = "ok" THEN last_failure ELSE result
    /\ IF result = "ok"
       THEN /\ assets' = Append(assets, [name |-> basename(up_file), id |-> next_id])
            /\ next_id' = next_id + 1
            /\ url' = next_id
            /\ download_url' = IF up_file = AppPath THEN next_id ELSE download_url
            /\ attempt' = attempt + 1
            /\ pc' = IF attempt + 1 < UploadTries THEN "upload_attempt" ELSE AfterUpload(up_file)
            /\ up_file' = IF attempt + 1 < UploadTries THEN up_file ELSE "none"
            /\ UNCHANGED raised
       ELSE /\ AttemptFailed(result)
            /\ UNCHANGED <<assets, next_id, download_url, url>>

(* One iteration of the loop of lines 186-205; open(file_path) fails when   *)
(* the file is not there, upload_asset fails or creates the asset.          *)
TryUpload(result) ==
    /\ tries' = tries + 1
    /\ last_failure' = IF result = "ok" THEN last_failure ELSE result
    /\ IF result = "ok"
       THEN /\ assets' = Append(assets, [name |-> basename(up_file), id |-> next_id])
            /\ next_id' = next_id + 1
            /\ url' = next_id
            /\ download_url' = IF up_file = AppPath THEN next_id ELSE download_url
            /\ pc' = AfterUpload(up_file)
            /\ up_file' = "none"
            /\ UNCHANGED <<attempt, raised>>
       ELSE /\ AttemptFailed(result)
            /\ UNCHANGED <<assets, next_id, download_url, url>>

UploadAttempt ==
    /\ pc = "upload_attempt"
    /\ \E result \in (IF up_file \in files THEN {"ok"} \union Causes
                                           ELSE {"FileNotFoundError"}) :
          TryUpload(result)
    /\ UNCHANGED <<platform, argc, git_branch_name, github_release, files,
                   errors_detected, needs_upload, uploads, deletes, has_daily, original_assets, tool_produced,
                   lines_read, tool_success, tool_output, notes, exit_code, tr, exe_dir, seen>>

----------------------------------------------------------------------------
(* Publish stage of main(): lines 592-637 *)

(* Lines 592-596; github_release.tag_name raises when get_release found no  *)
(* release.                                                                 *)
PublishGate ==
    /\ pc = "publish"
    /\ IF needs_upload /\ AppPath \in files
       THEN IF github_release = "None"
            THEN /\ Raise("AttributeError", "none", "github_release.tag_name")
                 /\ UNCHANGED <<uploads, up_file, attempt, tries, last_failure, url>>
            ELSE /\ CallUpload(AppPath)
                 /\ UNCHANGED raised
       ELSE /\ pc' = "final"
            /\ UNCHANGED <<uploads, up_file, attempt, tries, last_failure, raised, url>>
    /\ UNCHANGED <<platform, argc, git_branch_name, github_release, assets,
                   next_id, files, errors_detected, needs_upload, download_url,
                   deletes, has_daily, original_assets, tool_produced, lines_read, tool_success, tool_output,
                   notes, exit_code, tr, exe_dir, seen>>

(* Lines 598-620: remove an existing torrent file, start mktorrent *)
TorrentPrepare ==
    /\ pc = "torrent_prepare"
    /\ files' = files \ {TorrentPath}
    /\ StartTool(FALSE)
    /\ pc' = "torrent"
    /\ UNCHANGED <<platform, argc, git_branch_name, github_release, assets,
                   next_id, errors_detected, needs_upload, download_url,
                   up_file, attempt, uploads, tries, last_failure, deletes, raised,
                   has_daily, original_assets, tool_produced, notes, exit_code, tr, exe_dir, url>>

(* The sentinel the last line of mktorrent has to end with: line 625 *)
TorrentDone == "Writing metainfo file... done."

(* Lines mktorrent may print: one ending with the sentinel, or other text *)
TorrentLines ==
    {[kind |-> TorrentDone, len |-> 0]} \union {[kind |-> "output", len |-> n] : n \in LineLens}

(* One iteration of the loop of lines 620-623 *)
TorrentLine ==
    /\ pc = "torrent"
    /\ lines_read < MaxLines
    /\ \E line \in TorrentLines :
        /\ lines_read' = lines_read + 1
        /\ tool_output' = line
        /\ seen' = seen \union {{line.kind}}
    /\ UNCHANGED <<pc, platform, argc, git_branch_name, github_release, assets,
                   next_id, files, errors_detected, needs_upload, download_url,
                   up_file, attempt, uploads, tries, last_failure, deletes, raised,
                   has_daily, original_assets, tool_produced, tool_success, notes, exit_code, tr, exe_dir, url>>

TorrentVerdict_upload(written) ==
    /\ files' = IF written THEN files \union {TorrentPath} ELSE files
    /\ errors_detected' =
          IF tool_output.kind # TorrentDone
          THEN error(errors_detected, Msg("Torrent Error", TorrentErrLen + tool_output.len))
          ELSE errors_detected
    /\ CallUpload(TorrentPath)

(* Lines 625-631 *)
TorrentVerdict(written) ==
    /\ files' = IF written THEN files \union {TorrentPath} ELSE files
    /\ IF tool_output.kind # TorrentDone
       THEN /\ errors_detected' =
                   error(errors_detected, Msg("Torrent Error", TorrentErrLen + tool_output.len))
            /\ pc' = "final"
            /\ UNCHANGED <<uploads, up_file, attempt, tries, last_failure, url>>
       ELSE /\ CallUpload(TorrentPath)
            /\ UNCHANGED errors_detected

TorrentEnd ==
    /\ pc = "torrent"
    /\ \E written \in BOOLEAN : TorrentVerdict(written)
    /\ seen' = {}
    /\ UNCHANGED <<platform, argc, git_branch_name, github_release, assets,
                   next_id, needs_upload, download_url, deletes, raised,
                   has_daily, original_assets, tool_produced, lines_read, tool_success, tool_output, notes,
                   exit_code, tr, exe_dir>>

----------------------------------------------------------------------------
(* Notification and the end of main() *)

SuccessNote_nourl == [flavor |-> "success", url |-> 0, text |-> <<>>]

(* zulip_upload_log(...) with the comment "Successful *%s* build: %s" *)
SuccessNote == [flavor |-> "success", url |-> download_url, text |-> <<>>]

FailureNote_default == [flavor |-> "failure", url |-> 0,
                        text |-> truncate(errors_detected[1], DefaultMaxLen)]

(* zulip_upload_log(...) with the comment ":skull_and_crossbones: %s" *)
FailureNote == [flavor |-> "failure", url |-> 0,
                text |-> truncate(errors_detected[1], HeadlineMaxLen)]

(* Lines 633-637; the requests to the chat service may raise *)
NotifySuccess ==
    /\ pc = "notify"
    /\ notes' = Append(notes, SuccessNote)
    /\ \E ok \in BOOLEAN :
          IF ok
          THEN pc' = "final" /\ UNCHANGED raised
          ELSE Raise("Exception", "none", "requests.post")
    /\ UNCHANGED <<platform, argc, git_branch_name, github_release, assets,
                   next_id, files, errors_detected, needs_upload, download_url,
                   up_file, attempt, uploads, tries, last_failure, deletes, has_daily, original_assets, tool_produced,
                   lines_read, tool_success, tool_output, exit_code, tr, exe_dir, url, seen>>

Handler_silent ==
    /\ pc = "except"
    /\ pc' = "final"
    /\ UNCHANGED <<platform, argc, git_branch_name, github_release, assets,
                   next_id, files, errors_detected, needs_upload, download_url, up_file,
                   attempt, uploads, tries, last_failure, deletes, raised, has_daily,
                   original_assets, tool_produced, lines_read, tool_success, tool_output,
                   notes, exit_code, tr, exe_dir, url, seen>>

(* Lines 639-641 *)
Handler ==
    /\ pc = "except"
    /\ errors_detected' =
          error(errors_detected, Msg("Unhandled exception", UnhandledErrLen + raised.len))
    /\ pc' = "final"
    /\ UNCHANGED <<platform, argc, git_branch_name, github_release, assets,
                   next_id, files, needs_upload, download_url, up_file, attempt,
                   uploads, tries, last_failure, deletes, raised, has_daily, original_assets, tool_produced, lines_read,
                   tool_success, tool_output, notes, exit_code, tr, exe_dir, url, seen>>

(* Lines 643-652.  zulip_token is bound only when len(sys.argv) >= 2:       *)
(* reading it unbound raises outside the try block, which ends the process  *)
(* with status 1 before zulip_upload_log is called.  An exception raised    *)
(* by zulip_upload_log ends the process with status 1 as well.              *)
Finish_noexit ==
    /\ exit_code' = 0
    /\ notes' = IF errors_detected # <<>> /\ argc >= ArgcToken
                THEN Append(notes, FailureNote) ELSE notes

Finish ==
    IF errors_detected = <<>>
    THEN /\ exit_code' = 0
         /\ UNCHANGED notes
    ELSE /\ exit_code' = 1
         /\ notes' = IF argc >= ArgcToken THEN Append(notes, FailureNote) ELSE notes

Final ==
    /\ pc = "final"
    /\ Finish
    /\ pc' = "done"
    /\ UNCHANGED <<platform, argc, git_branch_name, github_release, assets,
                   next_id, files, errors_detected, needs_upload, download_url,
                   up_file, attempt, uploads, tries, last_failure, deletes, raised,
                   has_daily, original_assets, tool_produced, lines_read, tool_success, tool_output, tr, exe_dir, url, seen>>

Next ==
    \/ Setup
    \/ AppImageLine \/ AppImageEnd
    \/ DmgLine \/ DmgEnd
    \/ VerpatchLine \/ VerpatchEnd
    \/ InnoLine \/ InnoEnd
    \/ KeySignLine \/ KeySignEnd
    \/ PublishGate
    \/ UploadDelete \/ UploadAttempt
    \/ TorrentPrepare \/ TorrentLine \/ TorrentEnd
    \/ NotifySuccess
    \/ Handler
    \/ Final

Spec == Init /\ [][Next]_vars

----------------------------------------------------------------------------
(* truncate() on its own: every message of at most MaxTruncLen runs of one  *)
(* or two characters, and every maxlen up to MaxTruncMax.                   *)

TruncChars == {"a", "b"}

TruncRuns == { Run(ch, n) : ch \in TruncChars, n \in 1..2 }

TruncMessages == UNION { [1..k -> TruncRuns] : k \in 0..MaxTruncLen }

TruncInit ==
    /\ MainInit
    /\ platform = "Linux" /\ argc = 1 /\ ~has_daily /\ files = {}
    /\ exe_dir = ExeDirInit(FrozenTree)
    /\ \E m \in TruncMessages, k \in 0..MaxTruncMax :
          tr = [msg |-> m, maxlen |-> k, out |-> <<>>, called |-> FALSE]

CallTruncate ==
    /\ ~tr.called
    /\ tr' = [tr EXCEPT !.out = truncate(tr.msg, tr.maxlen), !.called = TRUE]
    /\ UNCHANGED main_vars

TruncNext == CallTruncate

TruncSpec == TruncInit /\ [][TruncNext]_vars

----------------------------------------------------------------------------
(* The debug-library filter on its own: every content of the three folders *)
(* drawn from DllNames.                                                    *)

DllInit ==
    /\ MainInit
    /\ platform = "Windows" /\ argc = 1 /\ ~has_daily /\ files = {}
    /\ tr = TruncIdle
    /\ \E tree \in [SubFolders -> SUBSET DllNames] : exe_dir = ExeDirInit(tree)

CleanExeDir ==
    /\ ~exe_dir.cleaned
    /\ exe_dir' = Cleaned(exe_dir)
    /\ UNCHANGED <<pc, platform, argc, git_branch_name, github_release, assets,
                   next_id, files, errors_detected, needs_upload, download_url,
                   up_file, attempt, uploads, tries, last_failure, deletes, raised,
                   has_daily, original_assets, tool_produced, lines_read, tool_success,
                   tool_output, notes, exit_code, tr, url, seen>>

DllNext == CleanExeDir

DllSpec == DllInit /\ [][DllNext]_vars

----------------------------------------------------------------------------
(* Properties *)

CountName(asset_list, name) ==
    Cardinality({i \in 1..Len(asset_list) : asset_list[i].name = name})

HadAsset(name) == \E i \in 1..Len(original_assets) : original_assets[i].name = name

Notified(flavor) == \E i \in 1..Len(notes) : notes[i].flavor = flavor

(* C1: an error recorded before the publish gate is evaluated keeps the    *)
(* publish stage from running (no call of upload follows), and the run     *)
(* ends with status 1.                                                     *)
LedgerGating ==
    /\ [][(pc = "publish" /\ errors_detected # <<>>)
            => (pc' = "final" /\ uploads' = uploads)]_vars
    /\ []((pc = "done" /\ errors_detected # <<>>) => exit_code = 1)

(* C2: the exit status is 0 exactly when the ledger is empty at the end,   *)
(* and 1 whenever an error was recorded.                                   *)
ExitStatus ==
    pc = "done" =>
        /\ (exit_code = 0 <=> errors_detected = <<>>)
        /\ (errors_detected # <<>> => exit_code = 1)

ExitStatusWitness ==
    /\ pc = "done"
    /\ exit_code = 1
    /\ Len(errors_detected) = 1
    /\ raised.kind # "none"

(* C3: upload never makes more than 3 attempts; it raises only after the   *)
(* third failed attempt, and a third failed attempt raises; the error      *)
(* carries the failure of that last attempt and the file path.             *)
UploadRetryBound ==
    /\ [](tries <= 3)
    /\ [](raised.kind = "Upload failed" =>
            /\ tries = 3
            /\ raised.cause = last_failure
            /\ raised.path = uploads[Len(uploads)])
    /\ [][(pc = "upload_attempt" /\ tries' = 3 /\ assets' = assets)
            => (pc' = "except" /\ raised'.kind = "Upload failed")]_vars

UploadRetryBoundWitness ==
    /\ raised.kind = "Upload failed"
    /\ tries = 3
    /\ raised.cause \in Causes

(* C4: when upload has returned for a file whose name was on the release   *)
(* before, the release holds exactly one asset of that name.               *)
UploadReplaces ==
    \A path \in {AppPath, TorrentPath} :
        (pc = AfterUpload(path) /\ HadAsset(basename(path)))
            => CountName(assets, basename(path)) = 1

(* C5: a run that has ended has called zulip_upload_log exactly once.      *)
NotifiedExactlyOnce == pc = "done" => Len(notes) = 1

(* C6: a success notification is sent only while the ledger is empty, a    *)
(* failure notification only while it is not.                              *)
FlavorMatchesLedger ==
    [][Len(notes') > Len(notes) =>
        LET note == notes'[Len(notes')]
        IN  /\ note.flavor = "success" => errors_detected = <<>>
            /\ note.flavor = "failure" => errors_detected # <<>>]_vars

(* C7: a run that ends with a non-empty ledger has called the failure      *)
(* notification, and exits with status 1.                                  *)
FailureAlwaysNotified ==
    (pc = "done" /\ errors_detected # <<>>) =>
        /\ Notified("failure")
        /\ exit_code = 1

(* Whether text is: first, when first has fewer than n characters, and     *)
(* otherwise the first n characters of first followed by "..."             *)
CutAt(text, first, n) ==
    IF TextLen(first) < n
    THEN /\ TextLen(text) = TextLen(first)
         /\ \A i \in 1..TextLen(first) : CharAt(text, i) = CharAt(first, i)
    ELSE /\ TextLen(text) = n + 3
         /\ \A i \in 1..n : CharAt(text, i) = CharAt(first, i)
         /\ \A i \in (n + 1)..(n + 3) : CharAt(text, i) = "."

HeadlineCutAt(n) ==
    \A i \in 1..Len(notes) :
        notes[i].flavor = "failure" => CutAt(notes[i].text, errors_detected[1], n)

(* C8 as claimed: the body of the failure notification is the first        *)
(* recorded error, unchanged below 256 characters, else its first 256      *)
(* characters and an ellipsis.                                             *)
Headline256 == HeadlineCutAt(256)

(* C8 as amended: the body of the failure notification is the first        *)
(* recorded error, unchanged below 100 characters, else its first 100      *)
(* characters and an ellipsis.                                             *)
Headline100 == HeadlineCutAt(100)

Headline100Witness ==
    \E i \in 1..Len(notes) :
        /\ notes[i].flavor = "failure"
        /\ TextLen(errors_detected[1]) >= 100
        /\ TextLen(errors_detected[1]) < 256
        /\ TextLen(notes[i].text) = 103

(* C9: truncate(message, max) is message when len(message) < max, and      *)
(* otherwise the first max characters of message followed by "...", of     *)
(* length max + 3.                                                         *)
TruncateContract ==
    tr.called =>
        /\ CutAt(tr.out, tr.msg, tr.maxlen)
        /\ TextLen(tr.msg) < tr.maxlen => tr.out = tr.msg

TruncateContractWitness ==
    /\ tr.called
    /\ tr.maxlen > 0
    /\ TextLen(tr.msg) = tr.maxlen
    /\ TextLen(tr.out) = tr.maxlen + 3

(* C10: a run whose packaging tool did not write its output file ends with *)
(* exactly one recorded error, no artifact file, no call of upload, exit   *)
(* status 1 and a failure notification carrying that error.                *)
ScenarioB ==
    (pc = "done" /\ tool_produced = "no") =>
        /\ Len(errors_detected) = 1
        /\ AppPath \notin files
        /\ uploads = <<>>
        /\ exit_code = 1
        /\ \E i \in 1..Len(notes) :
              /\ notes[i].flavor = "failure"
              /\ \A k \in 1..TextLen(notes[i].text) :
                    k <= TextLen(errors_detected[1]) =>
                        CharAt(notes[i].text, k) = CharAt(errors_detected[1], k)

(* A Linux run on branch "develop" whose packaging tool wrote its output   *)
(* file, in which no call of an external service raised and the last line  *)
(* of the peer-file tool was the completion sentinel.                      *)
LinuxHappyRun ==
    /\ pc = "done"
    /\ platform = "Linux"
    /\ git_branch_name = <<"develop">>
    /\ tool_produced = "yes"
    /\ raised.kind = "none"
    /\ tool_output.kind = TorrentDone

(* C11: scenario A.  Such a run ends with an empty ledger, exactly one     *)
(* call of upload for the artifact followed by exactly one for the peer    *)
(* file, one notification, of the success flavor and carrying the download *)
(* URL of the artifact's asset on the release, and exit status 0.          *)
ScenarioA ==
    LinuxHappyRun =>
        /\ errors_detected = <<>>
        /\ uploads = <<AppPath, TorrentPath>>
        /\ Len(notes) = 1
        /\ notes[1].flavor = "success"
        /\ notes[1].url # 0
        /\ \E i \in 1..Len(assets) :
              /\ assets[i].id = notes[1].url
              /\ assets[i].name = basename(AppPath)
        /\ exit_code = 0

ScenarioAWitness ==
    /\ LinuxHappyRun
    /\ Len(uploads) = 2
    /\ Len(notes) = 1
    /\ exit_code = 0

(* The last entry of the ledger is the handler's record of the exception   *)
(* that left the try block.                                                *)
HandlerRecorded ==
    /\ errors_detected # <<>>
    /\ LET last == errors_detected[Len(errors_detected)]
       IN  /\ CharAt(last, 1) = "Unhandled exception"
           /\ TextLen(last) = UnhandledErrLen + raised.len

(* C12: once an upload has failed three times, nothing of the publish      *)
(* stage runs any more (after the artifact's upload: no peer-file tool, no *)
(* second call of upload; in both cases no success notification); the      *)
(* handler records the error as the ledger's last entry, the failure       *)
(* notification is sent and the run exits with status 1.                   *)
UploadExhausted ==
    raised.kind = "Upload failed" =>
        /\ pc \in {"except", "final", "done"}
        /\ up_file = "none"
        /\ ~Notified("success")
        /\ raised.path = AppPath => (uploads = <<AppPath>> /\ download_url = 0)
        /\ raised.path = TorrentPath => uploads = <<AppPath, TorrentPath>>
        /\ pc \in {"final", "done"} => HandlerRecorded
        /\ pc = "done" => (Notified("failure") /\ exit_code = 1)

UploadExhaustedWitness ==
    /\ pc = "done"
    /\ raised.kind = "Upload failed"
    /\ raised.path = AppPath
    /\ tries = 3
    /\ Len(errors_detected) = 1

(* The packaging stage has ended: main() is at the publish gate, or the    *)
(* stage's os.remove has raised.                                           *)
PackagingEnded ==
    \/ pc = "publish"
    \/ pc = "except" /\ raised.cause = "os.remove"

(* C13: when the packaging stage ends with nothing recorded in the ledger, *)
(* the artifact file exists; when it ends with an error recorded, no file  *)
(* is at the artifact path, and an artifact is uploaded only from a stage  *)
(* that recorded nothing.                                                  *)
PackagerPostcondition ==
    /\ PackagingEnded =>
          IF errors_detected = <<>> THEN AppPath \in files ELSE AppPath \notin files
    /\ pc = "upload_delete" /\ up_file = AppPath => errors_detected = <<>>

IsPrefixOf(s, t) == Len(s) <= Len(t) /\ SubSeq(t, 1, Len(s)) = s

(* Whether text starts with the first n characters of first, or with all   *)
(* of first when it has fewer.                                             *)
StartsWithHead(text, first, n) ==
    LET k == IF TextLen(first) < n THEN TextLen(first) ELSE n
    IN  /\ TextLen(text) >= k
        /\ \A j \in 1..k : CharAt(text, j) = CharAt(first, j)

(* C14: every step leaves the entries the ledger already has in place and  *)
(* adds at most one entry after them, so the first entry never changes;    *)
(* and the text of a failure notification starts with the first entry of   *)
(* the ledger, whatever was recorded after it.                             *)
LedgerAppendOnly ==
    /\ [][/\ IsPrefixOf(errors_detected, errors_detected')
          /\ Len(errors_detected') <= Len(errors_detected) + 1]_vars
    /\ [](\A i \in 1..Len(notes) :
            notes[i].flavor = "failure" =>
                /\ errors_detected # <<>>
                /\ StartsWithHead(notes[i].text, errors_detected[1], HeadlineMaxLen))

LedgerAppendOnlyWitness ==
    /\ pc = "done"
    /\ Len(errors_detected) >= 2
    /\ CharAt(errors_detected[1], 1) # CharAt(errors_detected[2], 1)
    /\ \E i \in 1..Len(notes) :
          /\ notes[i].flavor = "failure"
          /\ CharAt(notes[i].text, 1) = CharAt(errors_detected[1], 1)

(* The last five characters of name are d . d l l *)
HasDebugSuffix(name) ==
    /\ Len(name) >= 5
    /\ name[Len(name) - 4] = "d"
    /\ name[Len(name) - 3] = "."
    /\ name[Len(name) - 2] = "d"
    /\ name[Len(name) - 1] = "l"
    /\ name[Len(name)] = "l"

(* C15: after the debug-library filter, each of the three folders holds    *)
(* exactly the names it listed before that do not end with "d.dll": those  *)
(* ending with "d.dll" are removed, every other file remains.              *)
DebugLibFilter ==
    exe_dir.cleaned =>
        \A sub_folder \in SubFolders :
            exe_dir.tree[sub_folder] =
                {name \in exe_dir.listing[sub_folder] : ~HasDebugSuffix(name)}

DebugLibFilterWitness ==
    /\ exe_dir.cleaned
    /\ {FooDll, FoodDll} \subseteq exe_dir.listing[""]
    /\ FooDll \in exe_dir.tree[""]
    /\ FoodDll \notin exe_dir.tree[""]
    /\ FoodDllBak \in exe_dir.tree["platforms"]
    /\ DDll \in exe_dir.listing["imageformats"]
    /\ DDll \notin exe_dir.tree["imageformats"]

(* C16: an attempt of upload that succeeds ends the call: it is counted,   *)
(* no further attempt follows, nothing is raised or recorded, and the      *)
(* value returned is the URL of the asset that attempt created; a failed   *)
(* attempt that is retried raises and records nothing either.  So a call   *)
(* whose first success is attempt k has made exactly k attempts when it    *)
(* returns.                                                                *)
UploadFirstSuccess ==
    /\ [][(pc = "upload_attempt" /\ Len(assets') > Len(assets)) =>
            /\ tries' = tries + 1
            /\ pc' \notin {"upload_attempt", "upload_delete", "except"}
            /\ up_file' = "none"
            /\ raised' = raised
            /\ errors_detected' = errors_detected
            /\ assets' = Append(assets, assets'[Len(assets')])
            /\ assets'[Len(assets')].name = basename(up_file)
            /\ url' = assets'[Len(assets')].id
            /\ \A i \in 1..Len(assets) : assets[i].id # url'
            /\ up_file = AppPath => download_url' = url']_vars
    /\ [][(pc = "upload_attempt" /\ pc' = "upload_attempt") =>
            /\ tries' = tries + 1
            /\ assets' = assets
            /\ raised' = raised
            /\ errors_detected' = errors_detected
            /\ url' = 0]_vars
    /\ [][tries' # tries =>
            \/ pc = "upload_attempt" /\ tries' = tries + 1
            \/ pc' = "upload_delete" /\ tries' = 0]_vars
    /\ [](url # 0 => (pc \notin {"upload_attempt", "upload_delete"} /\ tries \in 1..3))

UploadFirstSuccessWitness ==
    /\ url # 0
    /\ tries = 3
    /\ last_failure \in Causes
    /\ errors_detected = <<>>
    /\ raised.kind = "none"
    /\ download_url = url

(* C17: when the peer-file tool has ended and the last line kept from it   *)
(* does not end with the sentinel, that step records exactly one error, a  *)
(* "Torrent Error", calls upload for nothing, sends no notification and    *)
(* leaves the release as it is; the run then ends with the artifact's      *)
(* asset still on the release, no call of upload for the peer file, no     *)
(* success notification, the failure notification and exit status 1.  When *)
(* the line ends with the sentinel, the step records nothing and calls     *)
(* upload for the peer file.                                               *)
PeerFileMismatch ==
    /\ [][(pc = "torrent" /\ pc' # "torrent") =>
            IF tool_output.kind = TorrentDone
            THEN /\ uploads' = Append(uploads, TorrentPath)
                 /\ up_file' = TorrentPath
                 /\ pc' = "upload_delete"
                 /\ errors_detected' = errors_detected
            ELSE /\ Len(errors_detected') = Len(errors_detected) + 1
                 /\ IsPrefixOf(errors_detected, errors_detected')
                 /\ CharAt(errors_detected'[Len(errors_detected')], 1) = "Torrent Error"
                 /\ uploads' = uploads
                 /\ notes' = notes
                 /\ assets' = assets
                 /\ pc' = "final"]_vars
    /\ []((pc = "done" /\ download_url # 0 /\ tool_output.kind # TorrentDone) =>
            /\ uploads = <<AppPath>>
            /\ ~Notified("success")
            /\ Notified("failure")
            /\ exit_code = 1
            /\ \E i \in 1..Len(assets) :
                  assets[i].id = download_url /\ assets[i].name = basename(AppPath))

PeerFileMismatchWitness ==
    /\ pc = "done"
    /\ download_url # 0
    /\ tool_output.kind = "output"
    /\ Len(errors_detected) = 1
    /\ CharAt(errors_detected[1], 1) = "Torrent Error"
    /\ uploads = <<AppPath>>

(* C18: when the Linux packaging tool has ended and it printed an error    *)
(* line, or its output file is absent, an error is recorded, needs_upload  *)
(* is cleared and no file is left at the artifact path.                    *)
LinuxFailureDetection ==
    [][(pc = "appimage" /\ pc' # "appimage") =>
          (((\E line \in seen : "error" \in line) \/ tool_produced' = "no") =>
              /\ Len(errors_detected') > Len(errors_detected)
              /\ ~needs_upload'
              /\ AppPath \notin files')]_vars

(* A line that contains "error" without "No errors", or contains           *)
(* "rejected"                                                              *)
ErrorClassified(line) ==
    ("error" \in line /\ "No errors" \notin line) \/ "rejected" \in line

SentinelSeen == \E line \in seen : "Your image is ready" \in line

ErrorLineSeen == \E line \in seen : ErrorClassified(line)

Recorded(kind) ==
    \E i \in 1..Len(errors_detected) : CharAt(errors_detected[i], 1) = kind

(* C20: when verpatch has ended, any output of it records one "Verpatch    *)
(* Error" and nothing else changes: needs_upload keeps its value, nothing  *)
(* is raised and the installer compiler runs next.  When the installer     *)
(* compiler has ended, any output of it or the absence of its output file  *)
(* records one "Inno Compiler Error" and clears needs_upload, and signing  *)
(* runs next in both cases.  needs_upload is never set again, and a run    *)
(* that recorded an "Inno Compiler Error" never calls upload.              *)
WindowsAsymmetry ==
    /\ [][(pc = "verpatch" /\ pc' # "verpatch") =>
            /\ pc' = "inno"
            /\ needs_upload' = needs_upload
            /\ raised' = raised
            /\ IF seen # {}
               THEN /\ Len(errors_detected') = Len(errors_detected) + 1
                    /\ CharAt(errors_detected'[Len(errors_detected')], 1) = "Verpatch Error"
               ELSE errors_detected' = errors_detected]_vars
    /\ [][(pc = "inno" /\ pc' # "inno") =>
            /\ pc' = "keysign"
            /\ IF seen # {} \/ tool_produced' = "no"
               THEN /\ Len(errors_detected') = Len(errors_detected) + 1
                    /\ CharAt(errors_detected'[Len(errors_detected')], 1) = "Inno Compiler Error"
                    /\ ~needs_upload'
               ELSE /\ errors_detected' = errors_detected
                    /\ needs_upload' = needs_upload]_vars
    /\ [][(pc # "start" /\ ~needs_upload) => ~needs_upload']_vars
    /\ [](Recorded("Inno Compiler Error") => (~needs_upload /\ uploads = <<>>))

WindowsAsymmetryWitness ==
    /\ platform = "Windows"
    /\ pc = "publish"
    /\ Len(errors_detected) = 1
    /\ Recorded("Verpatch Error")
    /\ needs_upload
    /\ AppPath \in files

(* C21: when the signing tool has ended, if it printed a line without the  *)
(* text "will expire", one "Key Sign Error" is recorded, needs_upload is   *)
(* cleared and no file is left at the artifact path; if it printed nothing *)
(* or only lines with that text, nothing is recorded, needs_upload keeps   *)
(* its value and the files are left as they are.  A run that recorded a    *)
(* "Key Sign Error" never calls upload.                                    *)
WindowsSigning ==
    /\ [][(pc = "keysign" /\ pc' # "keysign") =>
            IF \E line \in seen : "will expire" \notin line
            THEN /\ Len(errors_detected') = Len(errors_detected) + 1
                 /\ CharAt(errors_detected'[Len(errors_detected')], 1) = "Key Sign Error"
                 /\ ~needs_upload'
                 /\ AppPath \notin files'
                 /\ pc' \in {"publish", "except"}
            ELSE /\ errors_detected' = errors_detected
                 /\ needs_upload' = needs_upload
                 /\ files' = files
                 /\ pc' = "publish"]_vars
    /\ [](Recorded("Key Sign Error") => (~needs_upload /\ uploads = <<>>))

WindowsSigningWitness ==
    /\ platform = "Windows"
    /\ pc = "publish"
    /\ tool_produced = "yes"
    /\ Len(errors_detected) = 1
    /\ Recorded("Key Sign Error")
    /\ ~needs_upload
    /\ AppPath \notin files

(* The branch name is exactly "develop" or starts with "release" *)
PublishedBranch ==
    \/ Len(git_branch_name) = 1 /\ git_branch_name[1] = "develop"
    \/ Len(git_branch_name) >= 1 /\ git_branch_name[1] = "release"

(* C22: upload is called only in runs on a branch named "develop" or       *)
(* starting with "release".  On any other branch no call of upload is      *)
(* made, nothing is deleted from or added to the release and no success    *)
(* notification is sent, also when the artifact was built and the ledger   *)
(* is empty; such a run with an empty ledger exits with status 0.          *)
BranchGating ==
    /\ (uploads # <<>> \/ pc \in {"upload_delete", "upload_attempt"}) => PublishedBranch
    /\ ~PublishedBranch =>
          /\ uploads = <<>>
          /\ deletes = <<>>
          /\ tries = 0
          /\ Len(assets) = next_id - 1
          /\ ~Notified("success")
          /\ (pc = "done" /\ errors_detected = <<>>) => exit_code = 0

BranchGatingWitness ==
    /\ pc = "done"
    /\ git_branch_name = <<"pre-", "release">>
    /\ has_daily
    /\ AppPath \in files
    /\ errors_detected = <<>>
    /\ uploads = <<>>
    /\ exit_code = 0

(* The release holds the asset with that id under that name *)
OnRelease(id, name) ==
    \E i \in 1..Len(assets) : assets[i].id = id /\ assets[i].name = name

(* C23: the first call of upload is made at the publish gate, for the      *)
(* artifact, with needs_upload set and the artifact file present; the      *)
(* peer-file tool runs only once that call has returned the URL of the     *)
(* artifact's asset; the second call of upload is made for the peer file,  *)
(* when the tool has ended with the sentinel as its last line; and the     *)
(* success notification is sent only when both calls have returned the URL *)
(* of an asset.  There is no other call of upload.                         *)
PublishOrder ==
    /\ [](IsPrefixOf(uploads, <<AppPath, TorrentPath>>))
    /\ [][uploads' # uploads =>
            \/ /\ pc = "publish"
               /\ needs_upload
               /\ AppPath \in files
               /\ uploads' = <<AppPath>>
            \/ /\ pc = "torrent"
               /\ tool_output.kind = TorrentDone
               /\ uploads' = <<AppPath, TorrentPath>>]_vars
    /\ [](pc \in {"torrent_prepare", "torrent"} =>
            /\ uploads = <<AppPath>>
            /\ up_file = "none"
            /\ download_url # 0
            /\ url = download_url
            /\ OnRelease(download_url, basename(AppPath)))
    /\ [][Len(notes') > Len(notes) /\ notes'[Len(notes')].flavor = "success" =>
            /\ uploads = <<AppPath, TorrentPath>>
            /\ up_file = "none"
            /\ raised.kind = "none"
            /\ download_url # 0
            /\ url # 0
            /\ OnRelease(download_url, basename(AppPath))
            /\ OnRelease(url, basename(TorrentPath))]_vars

PublishOrderWitness ==
    /\ pc = "done"
    /\ Notified("success")
    /\ uploads = <<AppPath, TorrentPath>>
    /\ OnRelease(download_url, basename(AppPath))
    /\ OnRelease(url, basename(TorrentPath))

(* Calls of upload made so far for a file whose name was on the release    *)
(* when the run fetched it                                                 *)
CallsWithMatch ==
    Cardinality({i \in 1..Len(uploads) : HadAsset(basename(uploads[i]))})

====
